---- MODULE Spec2Model ----
(***************************************************************************)
(* Witness encryption from the linearly verifiable SNARK for x*y = z       *)
(* (we-snark): SCS/KZG commitments, the IIP, NonZero, Mul and MaxDeg       *)
(* gadgets, the LV aggregator, the KEM header and the AEAD sealing.        *)
(*                                                                         *)
(* The pairing groups are modelled by discrete logarithms over a small     *)
(* prime field: an element a*g1 of G1 is the scalar a, b*g2 of G2 is b,    *)
(* and e(a*g1, b*g2) = e(g1,g2)^(a*b) is the scalar a*b.  GT is written    *)
(* multiplicatively in the source; here its product is field addition,     *)
(* its identity is 0 and exponentiation is field multiplication.           *)
(***************************************************************************)
EXTENDS Integers, Sequences, FiniteSets, TLC

(***************************************************************************)
(* Scalar field Fr, scaled down to a prime with a subgroup of order 4.     *)
(***************************************************************************)
P == 17

F == 0 .. (P - 1)

FAdd(a, b) == (a + b) % P

FSub(a, b) == (a - b + P) % P

FNeg(a) == (P - a) % P

FMul(a, b) == (a * b) % P

\* Field::inverse(): None on zero (every call site unwraps a non-zero value)
FInv(a) == CHOOSE b \in F : (a * b) % P = 1

RECURSIVE FPow(_, _)
FPow(a, k) == IF k = 0 THEN 1 ELSE FMul(a, FPow(a, k - 1))

(***************************************************************************)
(* Model bounds.                                                           *)
(***************************************************************************)
\* trapdoors drawn by the random source: Fr::from(u64) is a small integer
MaxTau == 2

\* witness slots x, y, z and the instance z0 range over 0..MaxW
MaxW == 2

\* encryptor randomness: every r_i in 0..MaxR
MaxR == 1

\* plaintext length in bytes
MaxMsgLen == 1

\* domain sizes n requested from CRS::setup range over 0..MaxN
MaxN == 4

\* a byte is modelled by a bit
Bytes == {0, 1}

Nonces == {0, 1}

(***************************************************************************)
(* Program constants.                                                      *)
(***************************************************************************)
\* main: domain size n = 4, slots [x, y, z, 1]
DomainSize == 4

\* FftField: the multiplicative group has order 2^TWO_ADICITY (P = 17)
TWO_ADICITY == 4

\* a generator of the subgroup of order 2^TWO_ADICITY
TWO_ADIC_ROOT_OF_UNITY == 6

LV_NUM_COORDS == 18

LV_ROWS == 8

Cols == 1 .. LV_NUM_COORDS

Rows == 1 .. LV_ROWS

(***************************************************************************)
(* Dense polynomials: coefficient sequences, lowest degree first, with no  *)
(* trailing zero (DensePolynomial::from_coefficients_vec truncates).       *)
(***************************************************************************)
RECURSIVE from_coefficients_vec(_)
from_coefficients_vec(v) ==
    IF v = <<>> THEN <<>>
    ELSE IF v[Len(v)] = 0 THEN from_coefficients_vec(SubSeq(v, 1, Len(v) - 1))
    ELSE v

Coef(p, i) == IF i >= 1 /\ i <= Len(p) THEN p[i] ELSE 0

Max(a, b) == IF a >= b THEN a ELSE b

RECURSIVE SumTo(_, _)
\* sum over k in 1..m of f[k] in the field
SumTo(f, m) == IF m = 0 THEN 0 ELSE FAdd(f[m], SumTo(f, m - 1))

add_constant(p, c) ==
    from_coefficients_vec(
        IF p = <<>> THEN <<c>> ELSE [p EXCEPT ![1] = FAdd(p[1], c)])

sub_constant(p, c) ==
    from_coefficients_vec(
        IF p = <<>> THEN <<FNeg(c)>> ELSE [p EXCEPT ![1] = FSub(p[1], c)])

sub_poly(a, b) ==
    from_coefficients_vec(
        [i \in 1 .. Max(Len(a), Len(b)) |-> FSub(Coef(a, i), Coef(b, i))])

scale_poly(p, c) == from_coefficients_vec([i \in 1 .. Len(p) |-> FMul(p[i], c)])

mul_by_xk(p, k) ==
    from_coefficients_vec([i \in 1 .. (k + Len(p)) |-> IF i <= k THEN 0 ELSE p[i - k]])

mul_poly(a, b) ==
    IF a = <<>> \/ b = <<>> THEN <<>>
    ELSE from_coefficients_vec(
        [k \in 1 .. (Len(a) + Len(b) - 1) |->
            SumTo([i \in 1 .. Len(a) |-> FMul(a[i], Coef(b, k - i + 1))], Len(a))])

RECURSIVE LongDiv(_, _, _)
\* schoolbook division: rem is the running remainder, quo the quotient so far
LongDiv(rem, q, quo) ==
    IF Len(rem) < Len(q) THEN [q |-> from_coefficients_vec(quo), r |-> rem]
    ELSE LET sh == Len(rem) - Len(q)
             c  == FMul(rem[Len(rem)], FInv(q[Len(q)]))
             nr == sub_poly(rem, mul_by_xk(scale_poly(q, c), sh))
             nq == [i \in 1 .. Max(Len(quo), sh + 1) |->
                        IF i = sh + 1 THEN FAdd(Coef(quo, i), c) ELSE Coef(quo, i)]
         IN  LongDiv(nr, q, nq)

\* helpers::div_rem: q = P / Q, r = P - q*Q
div_rem(p, q) ==
    LET quo == LongDiv(p, q, <<>>).q
    IN  [q |-> quo, r |-> sub_poly(p, mul_poly(quo, q))]

\* Polynomial::evaluate
evaluate(p, x) ==
    SumTo([i \in 1 .. Len(p) |-> FMul(p[i], FPow(x, i - 1))], Len(p))

(***************************************************************************)
(* SCS: powers-of-tau CRS (scs.rs).                                        *)
(***************************************************************************)
RECURSIVE PowerOfTwoFrom(_, _)
PowerOfTwoFrom(p, n) == IF p >= n THEN p ELSE PowerOfTwoFrom(2 * p, n)

\* usize::next_power_of_two: the least power of two that is >= n (1 for 0)
next_power_of_two(n) == PowerOfTwoFrom(1, n)

is_power_of_two(n) == n > 0 /\ next_power_of_two(n) = n

\* GeneralEvaluationDomain::new(num_coeffs): the radix-2 domain of the least
\* power-of-two size >= num_coeffs, or None when the field has no subgroup
\* of that size
GeneralEvaluationDomain_new(num_coeffs) ==
    LET size == next_power_of_two(num_coeffs)
    IN  IF size > 2 ^ TWO_ADICITY THEN [none |-> TRUE]
        ELSE [some |-> [ size      |-> size,
                         size_inv  |-> FInv(size % P),
                         group_gen |-> FPow(TWO_ADIC_ROOT_OF_UNITY,
                                            (2 ^ TWO_ADICITY) \div size) ]]

\* GeneralEvaluationDomain::element(i) = group_gen^i
domain_element(crs, i) == FPow(crs.domain.group_gen, i)

\* CRS::setup panics: .expect on an absent domain, .unwrap on the inverse of
\* a zero n
CRS_setup_panics(n) ==
    \/ "none" \in DOMAIN GeneralEvaluationDomain_new(n)
    \/ n % P = 0

\* CRS::setup(rng, n) with the drawn trapdoor tau, when it does not panic
CRS_setup(tau, n) ==
    LET domain == GeneralEvaluationDomain_new(n).some
        bigN == 2 * n + 4
    IN  [ n     |-> n,
          n_inv |-> FInv(n % P),
          tau   |-> tau,
          g1_pows |-> [i \in 1 .. (bigN + 1) |-> FPow(tau, i - 1)],
          g2_pows |-> [i \in 1 .. (bigN + 1) |-> FPow(tau, i - 1)],
          N     |-> bigN,
          vanishing_coeffs |-> [i \in 1 .. (domain.size + 1) |->
                                   IF i = 1 THEN FNeg(1)
                                   ELSE IF i = domain.size + 1 THEN 1 ELSE 0],
          domain |-> domain ]

g1_tau_pow(crs, k) == crs.g1_pows[k + 1]

g2_tau_pow(crs, k) == crs.g2_pows[k + 1]

\* the fold indexes g1_pows[j] (g2_pows[j]) for every non-zero coefficient j:
\* an index beyond N is an out-of-bounds panic
commit_in_range(crs, coeffs) ==
    \A j \in 1 .. Len(coeffs) : coeffs[j] # 0 => j <= crs.N + 1

\* the fold skipping the coefficients equal to one as well
commit_poly_g1_skip_one(crs, coeffs) ==
    SumTo([j \in 1 .. Len(coeffs) |->
              IF coeffs[j] = 0 \/ coeffs[j] = 1 THEN 0
              ELSE FMul(crs.g1_pows[j], coeffs[j])], Len(coeffs))

\* fold over the coefficients; zero coefficients are skipped
commit_poly_g1(crs, coeffs) ==
    SumTo([j \in 1 .. Len(coeffs) |->
              IF coeffs[j] = 0 THEN 0 ELSE FMul(crs.g1_pows[j], coeffs[j])], Len(coeffs))

commit_poly_g2(crs, coeffs) ==
    SumTo([j \in 1 .. Len(coeffs) |->
              IF coeffs[j] = 0 THEN 0 ELSE FMul(crs.g2_pows[j], coeffs[j])], Len(coeffs))

\* assert_eq!(evals.len(), self.n)
interpolate_panics(crs, evals) == Len(evals) # crs.n

\* ifft_in_place over D: the evaluations are resized to the domain size with
\* zeros, then c_k = size^{-1} * sum_i evals_i * omega^{-i k}
interpolate(crs, evals) ==
    LET size == crs.domain.size
        winv == FInv(crs.domain.group_gen)
        v    == [i \in 1 .. size |-> IF i <= Len(evals) THEN evals[i] ELSE 0]
    IN  from_coefficients_vec(
            [k \in 1 .. size |->
                FMul(crs.domain.size_inv,
                     SumTo([i \in 1 .. size |->
                               FMul(v[i], FPow(winv, (i - 1) * (k - 1)))], size))])

\* the bilinear pairing on discrete logarithms
pairing(a, b) == FMul(a, b)

(***************************************************************************)
(* IIP gadget (iip.rs).                                                    *)
(***************************************************************************)
\* the digest with the shift N-n+2 of the commented-out variant
iip_digest_shift2(crs, s) ==
    [ x_star  |-> 0,
      y_star  |-> crs.n_inv,
      C       |-> commit_poly_g1(crs, interpolate(crs, s)),
      Z_tau_2 |-> commit_poly_g2(crs, crs.vanishing_coeffs),
      tau_2   |-> g2_tau_pow(crs, 1),
      tau_N_minus_n_plus_2_2 |-> g2_tau_pow(crs, crs.N - crs.n + 2),
      tau_N_2 |-> g2_tau_pow(crs, crs.N),
      n       |-> crs.n,
      N       |-> crs.N ]

iip_digest(crs, s) ==
    [ x_star  |-> 0,
      y_star  |-> crs.n_inv,
      C       |-> commit_poly_g1(crs, interpolate(crs, s)),
      Z_tau_2 |-> commit_poly_g2(crs, crs.vanishing_coeffs),
      tau_2   |-> g2_tau_pow(crs, 1),
      tau_N_minus_n_plus_2_2 |-> g2_tau_pow(crs, crs.N - crs.n + 1),
      tau_N_2 |-> g2_tau_pow(crs, crs.N),
      n       |-> crs.n,
      N       |-> crs.N ]

\* assert_eq!(s.len(), crs.n)
iip_digest_panics(crs, s) == Len(s) # crs.n

\* assert_eq!(s.len(), crs.n); assert_eq!(w.len(), crs.n)
iip_prove_shape_panics(crs, s, w) == Len(s) # crs.n \/ Len(w) # crs.n

\* the polynomials iip_prove builds before it commits
\* the polynomials without the adjustment of Q_Z and R at x* = 0
iip_polys_unadjusted(crs, s, w) ==
    LET A   == interpolate(crs, s)
        B   == interpolate(crs, w)
        v   == SumTo([i \in 1 .. crs.n |-> FMul(w[i], s[i])], crs.n)
        t   == FMul(v, FInv(crs.n_inv))
        Pp  == sub_constant(mul_poly(A, B), t)
        Z   == from_coefficients_vec(crs.vanishing_coeffs)
        d1  == div_rem(Pp, Z)
        d2  == div_rem(d1.r, <<0, 1>>)
    IN  [ A |-> A, B |-> B, v |-> v, P |-> Pp, QZ |-> d1.q, R |-> d1.r,
          QX |-> d2.q, rem |-> d2.r,
          QX_hat |-> mul_by_xk(d2.q, crs.N - crs.n + 1),
          vhat   |-> from_coefficients_vec(
                        [i \in 1 .. (crs.N + 1) |-> IF i = crs.N + 1 THEN v ELSE 0]) ]

iip_polys(crs, s, w) ==
    LET A   == interpolate(crs, s)
        B   == interpolate(crs, w)
        v   == SumTo([i \in 1 .. crs.n |-> FMul(w[i], s[i])], crs.n)
        t   == FMul(v, FInv(crs.n_inv))
        Pp  == sub_constant(mul_poly(A, B), t)
        Z   == from_coefficients_vec(crs.vanishing_coeffs)
        d1  == div_rem(Pp, Z)
        Z_x == evaluate(Z, 0)
        R_x == evaluate(d1.r, 0)
        c   == FMul(R_x, FInv(Z_x))
        QZ  == IF R_x # 0 THEN add_constant(d1.q, c) ELSE d1.q
        R   == IF R_x # 0 THEN sub_poly(d1.r, scale_poly(Z, c)) ELSE d1.r
        d2  == div_rem(R, <<0, 1>>)
    IN  [ A |-> A, B |-> B, v |-> v, P |-> Pp, QZ |-> QZ, R |-> R,
          QX |-> d2.q, rem |-> d2.r,
          QX_hat |-> mul_by_xk(d2.q, crs.N - crs.n + 1),
          vhat   |-> from_coefficients_vec(
                        [i \in 1 .. (crs.N + 1) |-> IF i = crs.N + 1 THEN v ELSE 0]) ]

\* iip_prove panics: a failed debug_assert! in a build with debug assertions,
\* or a commitment that indexes beyond the CRS powers
iip_prove_panics(debug, crs, s, w) ==
    LET q == iip_polys(crs, s, w)
    IN  \/ debug /\ q.rem # <<>>
        \/ ~commit_in_range(crs, q.B)
        \/ ~commit_in_range(crs, q.QZ)
        \/ ~commit_in_range(crs, q.QX)
        \/ ~commit_in_range(crs, q.QX_hat)
        \/ ~commit_in_range(crs, q.vhat)

iip_prove(crs, s, w) ==
    LET q == iip_polys(crs, s, w)
    IN  [ w_tau_2      |-> commit_poly_g2(crs, q.B),
          v_g1         |-> q.v,
          QZ_tau_1     |-> commit_poly_g1(crs, q.QZ),
          QX_tau_1     |-> commit_poly_g1(crs, q.QX),
          QX_hat_tau_1 |-> commit_poly_g1(crs, q.QX_hat),
          v_hat_tau_1  |-> commit_poly_g1(crs, q.vhat) ]

\* iip_verify without the second equation
iip_verify_unshifted(d, pi) ==
    LET y_inv == FInv(d.y_star)
        lhs1  == pairing(d.C, pi.w_tau_2)
        rhs1  == FAdd(FAdd(pairing(FMul(pi.v_g1, y_inv), 1),
                           pairing(pi.QX_tau_1, d.tau_2)),
                      pairing(pi.QZ_tau_1, d.Z_tau_2))
    IN  /\ lhs1 = rhs1
        /\ pairing(pi.v_g1, d.tau_N_2) = pairing(pi.v_hat_tau_1, 1)

iip_verify(d, pi) ==
    LET y_inv == FInv(d.y_star)
        lhs1  == pairing(d.C, pi.w_tau_2)
        rhs1  == FAdd(FAdd(pairing(FMul(pi.v_g1, y_inv), 1),
                           pairing(pi.QX_tau_1, d.tau_2)),
                      pairing(pi.QZ_tau_1, d.Z_tau_2))
    IN  /\ lhs1 = rhs1
        /\ pairing(pi.QX_tau_1, d.tau_N_minus_n_plus_2_2) = pairing(pi.QX_hat_tau_1, 1)
        /\ pairing(pi.v_g1, d.tau_N_2) = pairing(pi.v_hat_tau_1, 1)

(***************************************************************************)
(* NonZero gadget (nonzero.rs).                                            *)
(***************************************************************************)
RECURSIVE SynthB(_, _, _)
\* b_i = a_i + d * b_{i-1} over the descending coefficients a
SynthB(a, d, i) == IF i = 1 THEN a[1] ELSE FAdd(a[i], FMul(d, SynthB(a, d, i - 1)))

divide_by_linear(poly, d) ==
    LET n == Len(poly)
    IN  IF n = 0 THEN [q |-> <<>>, r |-> 0]
        ELSE IF n = 1 THEN [q |-> <<>>, r |-> poly[1]]
        ELSE LET a == [i \in 1 .. n |-> poly[n - i + 1]]
                 b == [i \in 1 .. n |-> SynthB(a, d, i)]
             IN  [ q |-> from_coefficients_vec([i \in 1 .. (n - 1) |-> b[n - i]]),
                   r |-> b[n] ]

nonzero_division(crs, w, idx_one) ==
    divide_by_linear(sub_constant(interpolate(crs, w), 1), domain_element(crs, idx_one))

nonzero_prove(crs, w, idx_one) ==
    [ q0_tau_1 |-> commit_poly_g1(crs, nonzero_division(crs, w, idx_one).q),
      w_tau_2  |-> commit_poly_g2(crs, interpolate(crs, w)) ]

\* nonzero_verify opening at the next domain element
nonzero_verify_next(crs, pi, idx_one) ==
    LET tau_minus_d_2 == FSub(g2_tau_pow(crs, 1), domain_element(crs, idx_one + 1))
    IN  pairing(1, pi.w_tau_2) = FAdd(pairing(1, 1), pairing(pi.q0_tau_1, tau_minus_d_2))

nonzero_verify(crs, pi, idx_one) ==
    LET tau_minus_d_2 == FSub(g2_tau_pow(crs, 1), domain_element(crs, idx_one))
    IN  pairing(1, pi.w_tau_2) = FAdd(pairing(1, 1), pairing(pi.q0_tau_1, tau_minus_d_2))

(***************************************************************************)
(* Mul gadget: one-gate QAP and the aggregate digest/proof (mul_snark.rs). *)
(***************************************************************************)
\* MulWitness::to_vec
to_vec(w) == <<w.x, w.y, w.z, 1>>

build_mul_qap_polys(w) ==
    LET a == from_coefficients_vec(<<w.x>>)
        b == from_coefficients_vec(<<w.y>>)
        c == from_coefficients_vec(<<w.z>>)
    IN  [ a |-> a, b |-> b, c |-> c,
          p |-> sub_constant(mul_poly(a, b), w.z),
          z |-> from_coefficients_vec(<<FNeg(1), 1>>) ]

\* H(X) = P(X) / Z(X) and the remainder the debug assertion inspects
compute_h_poly(polys) == div_rem(polys.p, polys.z)

commit_mul_qap(crs, polys) ==
    [ a_tau_1 |-> commit_poly_g1(crs, polys.a),
      b_tau_1 |-> commit_poly_g1(crs, polys.b),
      b_tau_2 |-> commit_poly_g2(crs, polys.b),
      c_tau_1 |-> commit_poly_g1(crs, polys.c),
      p_tau_1 |-> commit_poly_g1(crs, polys.p),
      h_tau_1 |-> commit_poly_g1(crs, compute_h_poly(polys).q) ]

MulDigest_setup(crs, z0) ==
    LET s_x == <<1, 0, 0, 0>>
        s_y == <<0, 1, 0, 0>>
        s_z == <<0, 0, 1, 0>>
        d_bound == crs.n - 1
    IN  [ lv |-> [ iip_x |-> iip_digest(crs, s_x),
                   iip_y |-> iip_digest(crs, s_y),
                   iip_z |-> iip_digest(crs, s_z),
                   one_idx |-> 3,
                   mul_z_tau_2 |-> commit_poly_g2(crs, from_coefficients_vec(<<FNeg(1), 1>>)),
                   instance_z |-> z0,
                   d_bound |-> d_bound,
                   tau_N_minus_d_1 |-> g1_tau_pow(crs, crs.N - d_bound) ],
          s_x |-> s_x, s_y |-> s_y, s_z |-> s_z ]

\* the LVProof inside the MulProof that mul_prove returns
mul_prove(crs, dg, w) ==
    LET w_vec   == to_vec(w)
        commits == commit_mul_qap(crs, build_mul_qap_polys(w))
        B_poly  == interpolate(crs, w_vec)
        w_hat_poly == mul_by_xk(B_poly, crs.N - dg.lv.d_bound)
    IN  [ iip_x |-> iip_prove(crs, dg.s_x, w_vec),
          iip_y |-> iip_prove(crs, dg.s_y, w_vec),
          iip_z |-> iip_prove(crs, dg.s_z, w_vec),
          nz    |-> nonzero_prove(crs, w_vec, dg.lv.one_idx),
          w     |-> w_vec,
          p_tau_1 |-> commits.p_tau_1,
          h_tau_1 |-> commits.h_tau_1,
          a_tau_1 |-> commits.a_tau_1,
          b_tau_1 |-> commits.b_tau_1,
          c_tau_1 |-> commits.c_tau_1,
          b_tau_2 |-> commits.b_tau_2,
          w_hat_tau_1 |-> commit_poly_g1(crs, w_hat_poly) ]

\* the debug_assert!s on mul_prove's path: a build with debug assertions
\* panics exactly when one of them fails
mul_prove_asserts(crs, dg, w) ==
    LET w_vec == to_vec(w)
        polys == build_mul_qap_polys(w)
    IN  /\ iip_polys(crs, dg.s_x, w_vec).rem = <<>>
        /\ iip_polys(crs, dg.s_y, w_vec).rem = <<>>
        /\ iip_polys(crs, dg.s_z, w_vec).rem = <<>>
        /\ nonzero_division(crs, w_vec, dg.lv.one_idx).r = 0
        /\ compute_h_poly(polys).r = <<>>
        /\ evaluate(polys.p, 1) = 0
        /\ pairing(commit_poly_g1(crs, polys.p), 1) = 0

(***************************************************************************)
(* LV aggregator (verifier.rs).  Column j of the source is index j+1.      *)
(***************************************************************************)
None == [none |-> TRUE]

Some(v) == [some |-> v]

IsSome(o) == "some" \in DOMAIN o

build_lv_coords(crs, dg, pi) ==
    IF pi.iip_z.w_tau_2 # pi.nz.w_tau_2 THEN None
    ELSE LET y_inv == FInv(dg.iip_z.y_star)
             d     == domain_element(crs, dg.one_idx)
             tau_minus_d_2 == FSub(g2_tau_pow(crs, 1), FMul(1, d))
         IN  Some(<< pairing(dg.iip_z.C, pi.iip_z.w_tau_2),
                     pairing(FMul(pi.iip_z.v_g1, y_inv), 1),
                     pairing(pi.iip_z.QX_tau_1, dg.iip_z.tau_2),
                     pairing(pi.iip_z.QZ_tau_1, dg.iip_z.Z_tau_2),
                     pairing(pi.iip_z.QX_tau_1, dg.iip_z.tau_N_minus_n_plus_2_2),
                     pairing(pi.iip_z.QX_hat_tau_1, 1),
                     pairing(pi.iip_z.v_g1, dg.iip_z.tau_N_2),
                     pairing(pi.iip_z.v_hat_tau_1, 1),
                     pairing(1, pi.nz.w_tau_2),
                     pairing(pi.nz.q0_tau_1, tau_minus_d_2),
                     pairing(pi.p_tau_1, 1),
                     pairing(pi.h_tau_1, dg.mul_z_tau_2),
                     pairing(pi.a_tau_1, 1),
                     pairing(pi.b_tau_1, 1),
                     pairing(pi.iip_z.v_g1, 1),
                     pairing(pi.c_tau_1, 1),
                     pairing(dg.tau_N_minus_d_1, pi.iip_z.w_tau_2),
                     pairing(pi.w_hat_tau_1, 1) >>)

G1(v) == [grp |-> "G1", v |-> v]

G2(v) == [grp |-> "G2", v |-> v]

\* build_proof_side_elems without the comparison of the two commitments
build_proof_side_elems_unchecked(crs, dg, pi) ==
    LET y_inv == FInv(dg.iip_z.y_star)
    IN  Some(<< G2(pi.iip_z.w_tau_2),
                G1(FMul(pi.iip_z.v_g1, y_inv)),
                G1(pi.iip_z.QX_tau_1),
                G1(pi.iip_z.QZ_tau_1),
                G1(pi.iip_z.QX_tau_1),
                G1(pi.iip_z.QX_hat_tau_1),
                G1(pi.iip_z.v_g1),
                G1(pi.iip_z.v_hat_tau_1),
                G2(pi.nz.w_tau_2),
                G1(pi.nz.q0_tau_1),
                G1(pi.p_tau_1),
                G1(pi.h_tau_1),
                G1(pi.a_tau_1),
                G1(pi.b_tau_1),
                G1(pi.iip_z.v_g1),
                G1(pi.c_tau_1),
                G2(pi.iip_z.w_tau_2),
                G1(pi.w_hat_tau_1) >>)

build_proof_side_elems(crs, dg, pi) ==
    IF pi.iip_z.w_tau_2 # pi.nz.w_tau_2 THEN None
    ELSE LET y_inv == FInv(dg.iip_z.y_star)
         IN  Some(<< G2(pi.iip_z.w_tau_2),
                     G1(FMul(pi.iip_z.v_g1, y_inv)),
                     G1(pi.iip_z.QX_tau_1),
                     G1(pi.iip_z.QZ_tau_1),
                     G1(pi.iip_z.QX_tau_1),
                     G1(pi.iip_z.QX_hat_tau_1),
                     G1(pi.iip_z.v_g1),
                     G1(pi.iip_z.v_hat_tau_1),
                     G2(pi.nz.w_tau_2),
                     G1(pi.nz.q0_tau_1),
                     G1(pi.p_tau_1),
                     G1(pi.h_tau_1),
                     G1(pi.a_tau_1),
                     G1(pi.b_tau_1),
                     G1(pi.iip_z.v_g1),
                     G1(pi.c_tau_1),
                     G2(pi.iip_z.w_tau_2),
                     G1(pi.w_hat_tau_1) >>)

\* row i of A_LV: +1 on column plus, -1 on column minus (0-based, -1 = absent)
ShapeRow(plus, minus) ==
    [j \in Cols |-> IF j = plus + 1 THEN 1 ELSE IF j = minus + 1 THEN -1 ELSE 0]

linear_shape(dg, crs) ==
    [ rows |-> LV_ROWS,
      a |-> << [j \in Cols |-> IF j = 1 THEN 1 ELSE IF j \in {2, 3, 4} THEN -1 ELSE 0],
               ShapeRow(4, 5),
               ShapeRow(6, 7),
               ShapeRow(8, 9),
               ShapeRow(10, 11),
               ShapeRow(14, 15),
               ShapeRow(16, 17),
               ShapeRow(14, -1) >>,
      b |-> [i \in Rows |->
                IF i = 4 THEN pairing(1, 1)
                ELSE IF i = 8 THEN pairing(FMul(1, dg.instance_z), 1)
                ELSE 0] ]

ProofG1PublicG2 == "ProofG1PublicG2"

ProofG2PublicG1 == "ProofG2PublicG1"

ColG1(base) == [side |-> ProofG1PublicG2, g1_pub |-> None, g2_pub |-> Some(base)]

ColG2(base) == [side |-> ProofG2PublicG1, g1_pub |-> Some(base), g2_pub |-> None]

\* the metadata with the bases of the two MaxDeg columns exchanged
column_metadata_swapped(dg, crs) ==
    LET d == domain_element(crs, dg.one_idx)
        tau_minus_d_2 == FSub(g2_tau_pow(crs, 1), FMul(1, d))
    IN  << ColG2(dg.iip_z.C),
           ColG1(1),
           ColG1(dg.iip_z.tau_2),
           ColG1(dg.iip_z.Z_tau_2),
           ColG1(dg.iip_z.tau_N_minus_n_plus_2_2),
           ColG1(1),
           ColG1(dg.iip_z.tau_N_2),
           ColG1(1),
           ColG2(1),
           ColG1(tau_minus_d_2),
           ColG1(1),
           ColG1(dg.mul_z_tau_2),
           ColG1(1),
           ColG1(1),
           ColG1(1),
           ColG1(1),
           ColG2(1),
           ColG1(dg.tau_N_minus_d_1) >>

column_metadata(dg, crs) ==
    LET d == domain_element(crs, dg.one_idx)
        tau_minus_d_2 == FSub(g2_tau_pow(crs, 1), FMul(1, d))
    IN  << ColG2(dg.iip_z.C),
           ColG1(1),
           ColG1(dg.iip_z.tau_2),
           ColG1(dg.iip_z.Z_tau_2),
           ColG1(dg.iip_z.tau_N_minus_n_plus_2_2),
           ColG1(1),
           ColG1(dg.iip_z.tau_N_2),
           ColG1(1),
           ColG2(1),
           ColG1(tau_minus_d_2),
           ColG1(1),
           ColG1(dg.mul_z_tau_2),
           ColG1(1),
           ColG1(1),
           ColG1(1),
           ColG1(1),
           ColG2(dg.tau_N_minus_d_1),
           ColG1(1) >>

\* the GT product of row i: coords[j]^{a[i][j]} over all columns
RowLhs(shape, coords, i) ==
    SumTo([j \in Cols |->
              IF shape.a[i][j] = 1 THEN coords[j]
              ELSE IF shape.a[i][j] = -1 THEN FNeg(coords[j])
              ELSE 0], LV_NUM_COORDS)

\* the loop stopping one row short
recover_sb_via_linear_check_short(shape, coords) ==
    \A i \in 1 .. (shape.rows - 1) : RowLhs(shape, coords, i) = shape.b[i]

recover_sb_via_linear_check(shape, coords) ==
    \A i \in 1 .. shape.rows : RowLhs(shape, coords, i) = shape.b[i]

\* lv_verify as built with (debug = TRUE) or without debug assertions
lv_verify(debug, crs, dg, pi) ==
    /\ Len(pi.w) = 4
    /\ debug => /\ iip_verify(dg.iip_x, pi.iip_x)
                /\ iip_verify(dg.iip_y, pi.iip_y)
                /\ iip_verify(dg.iip_z, pi.iip_z)
                /\ nonzero_verify(crs, pi.nz, dg.one_idx)
    /\ pairing(pi.a_tau_1, 1) = pairing(pi.iip_x.v_g1, 1)
    /\ pairing(pi.b_tau_1, 1) = pairing(pi.iip_y.v_g1, 1)
    /\ pairing(pi.a_tau_1, pi.b_tau_2) = FAdd(pairing(pi.p_tau_1, 1), pairing(pi.c_tau_1, 1))
    /\ LET coords == build_lv_coords(crs, dg, pi)
       IN  /\ IsSome(coords)
           /\ recover_sb_via_linear_check(linear_shape(dg, crs), coords.some)

(***************************************************************************)
(* WE KEM and AEAD sealing (we.rs).                                        *)
(***************************************************************************)
lv_public_linear_params(crs, dg) ==
    [shape |-> linear_shape(dg, crs), cols |-> column_metadata(dg, crs)]

\* derive_alphas adding r_i on a -1 entry instead of subtracting it
derive_alphas_unsigned(shape, r) ==
    [j \in Cols |->
        SumTo([i \in 1 .. shape.rows |->
                  IF shape.a[i][j] = 1 THEN r[i]
                  ELSE IF shape.a[i][j] = -1 THEN r[i]
                  ELSE 0], shape.rows)]

derive_alphas(shape, r) ==
    [j \in Cols |->
        SumTo([i \in 1 .. shape.rows |->
                  IF shape.a[i][j] = 1 THEN r[i]
                  ELSE IF shape.a[i][j] = -1 THEN FNeg(r[i])
                  ELSE 0], shape.rows)]

\* the cast taken as the magnitude of the entry
AsU8_magnitude(e) == IF e < 0 THEN 0 - e ELSE e

\* `as u8` on an i8 matrix entry
AsU8(e) == (e + 256) % 256

\* SHA-256 as an ideal hash: the digest determines the absorbed input
Sha256(input) == [sha256 |-> input]

ShapeBytes(shape) ==
    << [i \in 1 .. shape.rows |-> [j \in Cols |-> AsU8(shape.a[i][j])]],
       [i \in 1 .. shape.rows |-> shape.b[i]] >>

kdf_from_gt_with_ctx(gt, hdr, crs, shape) ==
    Sha256(<<gt, crs.n, crs.N>> \o ShapeBytes(shape) \o <<hdr.c1>>)

compute_aad(crs, shape, hdr) ==
    Sha256(<<crs.n, crs.N>> \o ShapeBytes(shape) \o <<hdr.c1>>)

\* lv_make_header with the sampled vector r: the header and the key
lv_make_header(params, crs, r) ==
    LET alpha == derive_alphas(params.shape, r)
        c1 == [j \in Cols |->
                  IF params.cols[j].side = ProofG1PublicG2
                  THEN G2(FMul(params.cols[j].g2_pub.some, alpha[j]))
                  ELSE G1(FMul(params.cols[j].g1_pub.some, alpha[j]))]
        hdr == [c1 |-> c1]
        B == SumTo([i \in 1 .. params.shape.rows |-> FMul(params.shape.b[i], r[i])],
                   params.shape.rows)
    IN  [hdr |-> hdr, key |-> kdf_from_gt_with_ctx(B, hdr, crs, params.shape)]

\* the match of one column pairing the elements whatever their groups
ColumnPairing_untyped(side, h, pe) ==
    IF side = ProofG1PublicG2 THEN Some(pairing(pe.v, h.v))
    ELSE Some(pairing(h.v, pe.v))

\* the match of one column: the pairing, or None on a group mismatch
ColumnPairing(side, h, pe) ==
    IF side = ProofG1PublicG2 /\ h.grp = "G2" /\ pe.grp = "G1" THEN Some(pairing(pe.v, h.v))
    ELSE IF side = ProofG2PublicG1 /\ h.grp = "G1" /\ pe.grp = "G2" THEN Some(pairing(h.v, pe.v))
    ELSE None

lv_key_from_header(crs, dg, params, hdr, pi) ==
    IF Len(hdr.c1) # LV_NUM_COORDS THEN None
    ELSE LET proof_elems == build_proof_side_elems(crs, dg, pi)
         IN  IF ~IsSome(proof_elems) THEN None
             ELSE LET terms == [j \in Cols |->
                                   ColumnPairing(params.cols[j].side, hdr.c1[j],
                                                 proof_elems.some[j])]
                  IN  IF \E j \in Cols : ~IsSome(terms[j]) THEN None
                      ELSE Some(kdf_from_gt_with_ctx(
                                    SumTo([j \in Cols |-> terms[j].some], LV_NUM_COORDS),
                                    hdr, crs, params.shape))

\* AES-256-GCM: CTR keystream byte i under (key, nonce)
KeyStream(key, nonce_12, i) == (key.sha256[1] + nonce_12 + i) % Cardinality(Bytes)

\* the GCM tag as an ideal MAC over (key, nonce, aad, ciphertext)
GcmTag(key, nonce_12, aad, ciphertext) == [mac |-> <<key, nonce_12, aad, ciphertext>>]

\* encrypt_in_place_detached: the buffer after the call and the tag
aead_encrypt(crs, shape, hdr, key, nonce_12, plaintext) ==
    LET aad == compute_aad(crs, shape, hdr)
        buf == [i \in 1 .. Len(plaintext) |->
                   (plaintext[i] + KeyStream(key, nonce_12, i)) % Cardinality(Bytes)]
    IN  [buf |-> buf, tag |-> GcmTag(key, nonce_12, aad, buf)]

\* aead_decrypt with the keystream one block off
aead_decrypt_shifted(key, nonce_12, ciphertext, tag, aad) ==
    IF tag = GcmTag(key, nonce_12, aad, ciphertext)
    THEN [ok |-> TRUE,
          buf |-> [i \in 1 .. Len(ciphertext) |->
                      (ciphertext[i] + Cardinality(Bytes) - KeyStream(key, nonce_12, i + 1))
                          % Cardinality(Bytes)]]
    ELSE [ok |-> FALSE, buf |-> ciphertext]

\* aead_decrypt that decrypts without comparing the tag
aead_decrypt_unchecked(key, nonce_12, ciphertext, tag, aad) ==
    [ok |-> TRUE,
     buf |-> [i \in 1 .. Len(ciphertext) |->
                 (ciphertext[i] + Cardinality(Bytes) - KeyStream(key, nonce_12, i))
                     % Cardinality(Bytes)]]

\* aead_decrypt that applies the keystream before it compares the tag
aead_decrypt_eager(key, nonce_12, ciphertext, tag, aad) ==
    [ok |-> tag = GcmTag(key, nonce_12, aad, ciphertext),
     buf |-> [i \in 1 .. Len(ciphertext) |->
                 (ciphertext[i] + Cardinality(Bytes) - KeyStream(key, nonce_12, i))
                     % Cardinality(Bytes)]]

\* decrypt_in_place_detached: the verdict and the buffer after the call
aead_decrypt(key, nonce_12, ciphertext, tag, aad) ==
    IF tag = GcmTag(key, nonce_12, aad, ciphertext)
    THEN [ok |-> TRUE,
          buf |-> [i \in 1 .. Len(ciphertext) |->
                      (ciphertext[i] + Cardinality(Bytes) - KeyStream(key, nonce_12, i))
                          % Cardinality(Bytes)]]
    ELSE [ok |-> FALSE, buf |-> ciphertext]

\* the returned Option, the caller's buffer after the call and the derived key
decrypt_with_lv_header(crs, dg, params, hdr, pi, nonce_12, ciphertext, tag) ==
    LET key == lv_key_from_header(crs, dg, params, hdr, pi)
    IN  IF ~IsSome(key) THEN [out |-> None, ct |-> ciphertext, key |-> key]
        ELSE LET res == aead_decrypt(key.some, nonce_12, ciphertext, tag,
                                     compute_aad(crs, params.shape, hdr))
             IN  IF res.ok THEN [out |-> Some(res.buf), ct |-> res.buf, key |-> key]
                 ELSE [out |-> None, ct |-> res.buf, key |-> key]

(***************************************************************************)
(* Inputs.                                                                 *)
(***************************************************************************)
TauDraws == 0 .. MaxTau

Slots == 0 .. MaxW

\* sampled vectors r: all rows equal, or one row zero
RSamples ==
    { [i \in Rows |-> IF i = k THEN 0 ELSE r0] : k \in 0 .. LV_ROWS, r0 \in 0 .. MaxR }

\* the vectors of RSamples with all rows equal
RUniform == { [i \in Rows |-> r0] : r0 \in 0 .. MaxR }

\* the vectors of RSamples with no zero row
RNonzero == { [i \in Rows |-> r0] : r0 \in 1 .. MaxR }

RECURSIVE SeqsUpTo(_, _)
SeqsUpTo(S, n) ==
    IF n = 0 THEN {<<>>}
    ELSE SeqsUpTo(S, n - 1) \cup
         { Append(q, b) : q \in { t \in SeqsUpTo(S, n - 1) : Len(t) = n - 1 }, b \in S }

Msgs == SeqsUpTo(Bytes, MaxMsgLen)

\* the messages of full length
LongMsgs == { m \in Msgs : Len(m) = MaxMsgLen }

\* requested domain sizes: the small ones and one beyond the two-adicity
Sizes == (0 .. MaxN) \cup {2 * (2 ^ TWO_ADICITY)}

\* witness vectors of length n: one slot a, the others b
WVecs(n) == { [i \in 1 .. n |-> IF i = k THEN a ELSE b] : k \in 1 .. n, a \in Slots, b \in Slots }

\* selector vectors of length n: the unit vectors, all zeros, all ones
SVecs(n) ==
    { [i \in 1 .. n |-> IF i = k THEN 1 ELSE 0] : k \in 0 .. n }
        \cup { [i \in 1 .. n |-> 1] }

\* coefficient vectors of length at most N+1: the short ones and c * X^N
CoeffVecs(c, len) ==
    SeqsUpTo(Slots, len)
        \cup { [j \in 1 .. (c.N + 1) |-> IF j = c.N + 1 THEN a ELSE 0] : a \in Slots \ {0} }

\* the calls that take a vector over D, and vectors of every length up to m
ShapeCalls == {"iip_digest", "iip_prove_s", "iip_prove_w", "nonzero_prove", "interpolate"}

OnesUpTo(m) == { [i \in 1 .. len |-> 1] : len \in 0 .. m }

IipFields == {"w_tau_2", "v_g1", "QZ_tau_1", "QX_tau_1", "QX_hat_tau_1", "v_hat_tau_1"}

MulFields == {"a_tau_1", "b_tau_1", "b_tau_2", "c_tau_1", "p_tau_1", "h_tau_1"}

\* group elements different from h: the next element of its group, or the
\* element of the other source group with the same discrete logarithm
Replacements(h) ==
    { [grp |-> h.grp, v |-> FAdd(h.v, 1)],
      [grp |-> IF h.grp = "G1" THEN "G2" ELSE "G1", v |-> h.v] }

(***************************************************************************)
(* The pipeline of main: setup, digest, prove, verify, encrypt, decrypt.   *)
(***************************************************************************)
VARIABLES pc, crs, dg, wit, pi, verdict, params, r, hdr, key_enc,
          nonce, pt, ct, tag, key_dec, out, perturbed, adv, gad

vars == <<pc, crs, dg, wit, pi, verdict, params, r, hdr, key_enc,
          nonce, pt, ct, tag, key_dec, out, perturbed, adv, gad>>

Init ==
    /\ pc = "start"
    /\ crs = None /\ dg = None /\ wit = None /\ pi = None
    /\ verdict = None /\ params = None /\ r = None /\ hdr = None
    /\ key_enc = None /\ nonce = None /\ pt = None /\ ct = None
    /\ tag = None /\ key_dec = None /\ out = None /\ perturbed = None
    /\ adv = {}
    /\ gad = None

\* let crs = CRS::setup(&mut rng, n), for n drawn from sizes: a panic leaves
\* no CRS
Setup(sizes) ==
    /\ pc = "start"
    /\ \E tau \in TauDraws, n \in sizes :
          IF CRS_setup_panics(n)
          THEN pc' = "panic" /\ crs' = crs /\ gad' = [n |-> n]
          ELSE pc' = "crs" /\ crs' = CRS_setup(tau, n) /\ gad' = gad
    /\ UNCHANGED <<dg, wit, pi, verdict, params, r, hdr, key_enc, nonce, pt, ct, tag,
                   key_dec, out, perturbed, adv>>

\* let dg = MulDigest::setup(&crs, z0)
DigestSetup ==
    /\ pc = "crs"
    /\ IF crs.n # DomainSize
       THEN pc' = "panic" /\ dg' = dg
       ELSE pc' = "digest" /\ \E z0 \in Slots : dg' = MulDigest_setup(crs, z0)
    /\ UNCHANGED <<crs, wit, pi, verdict, params, r, hdr, key_enc, nonce, pt, ct, tag,
                   key_dec, out, perturbed, adv, gad>>

\* let pi = mul_prove(&crs, &dg, &w), for a witness with z = x*y or z = z0:
\* a build with debug assertions panics on a failed debug_assert!, a release
\* build returns the proof
Prove ==
    /\ pc = "digest"
    /\ \E x \in Slots, y \in Slots, debug \in BOOLEAN :
         \E z \in {FMul(x, y), dg.lv.instance_z} :
          LET w == [x |-> x, y |-> y, z |-> z]
          IN  /\ wit' = w
              /\ IF debug /\ ~mul_prove_asserts(crs, dg, w)
                 THEN pc' = "panic" /\ pi' = pi
                 ELSE pc' = "proved" /\ pi' = mul_prove(crs, dg, w)
    /\ UNCHANGED <<crs, dg, verdict, params, r, hdr, key_enc, nonce, pt, ct, tag,
                   key_dec, out, perturbed, adv, gad>>

\* an adversarial prover replaces one Mul commitment of the proof by the
\* commitment to another constant polynomial
ForgeMul(values) ==
    /\ pc = "proved"
    /\ \E f \in MulFields, v \in values :
          /\ v # pi[f]
          /\ pi' = [pi EXCEPT ![f] = v]
    /\ pc' = "forged"
    /\ adv' = adv \cup {"proof"}
    /\ UNCHANGED <<crs, dg, wit, verdict, params, r, hdr, key_enc, nonce, pt, ct, tag,
                   key_dec, out, perturbed, gad>>

\* an adversarial prover replaces one element of a gadget proof inside the
\* LVProof: a field of iip_x, iip_y or iip_z, or the NonZero quotient
ForgeGadget ==
    /\ pc = "proved"
    /\ \/ \E g \in {"iip_x", "iip_y", "iip_z"}, f \in IipFields :
             pi' = [pi EXCEPT ![g][f] = FAdd(@, 1)]
       \/ pi' = [pi EXCEPT !.nz.q0_tau_1 = FAdd(@, 1)]
    /\ pc' = "forged"
    /\ adv' = adv \cup {"gadget"}
    /\ UNCHANGED <<crs, dg, wit, verdict, params, r, hdr, key_enc, nonce, pt, ct, tag,
                   key_dec, out, perturbed, gad>>

\* an adversarial prover replaces one of the two commitments to B(tau), the
\* IIP-z one or the NonZero one, in a proof honest or already forged
ForgeCommitment ==
    /\ pc \in {"proved", "forged"}
    /\ "commitment" \notin adv
    /\ \E g \in {"iip_z", "nz"} :
          pi' = [pi EXCEPT ![g].w_tau_2 = FAdd(@, 1)]
    /\ pc' = "forged"
    /\ adv' = adv \cup {"commitment"}
    /\ UNCHANGED <<crs, dg, wit, verdict, params, r, hdr, key_enc, nonce, pt, ct, tag,
                   key_dec, out, perturbed, gad>>

\* lv_verify(&crs, &dg.lv, &pi.lv), built with or without debug assertions
Verify ==
    /\ pc \in {"proved", "forged"}
    /\ \E debug \in BOOLEAN : verdict' = lv_verify(debug, crs, dg.lv, pi)
    /\ pc' = "verified"
    /\ UNCHANGED <<crs, dg, wit, pi, params, r, hdr, key_enc, nonce, pt, ct, tag,
                   key_dec, out, perturbed, adv, gad>>

\* recover_sb_via_linear_check on the coordinates of an accepted proof with
\* coordinate j replaced by a different GT element
PerturbCoord ==
    /\ pc = "verified"
    /\ verdict = TRUE
    /\ \E j \in Cols, delta \in 1 .. (P - 1) :
          LET c  == build_lv_coords(crs, dg.lv, pi).some
              c2 == [c EXCEPT ![j] = FAdd(c[j], delta)]
          IN  perturbed' = [ col |-> j, coords |-> c2,
                             ok |-> recover_sb_via_linear_check(
                                        linear_shape(dg.lv, crs), c2) ]
    /\ pc' = "perturbed"
    /\ UNCHANGED <<crs, dg, wit, pi, verdict, params, r, hdr, key_enc, nonce, pt, ct,
                   tag, key_dec, out, adv, gad>>

\* let params = lv_public_linear_params(&crs, &dg.lv)
PublicParams ==
    /\ pc = "verified"
    /\ params' = lv_public_linear_params(crs, dg.lv)
    /\ pc' = "params"
    /\ UNCHANGED <<crs, dg, wit, pi, verdict, r, hdr, key_enc, nonce, pt, ct, tag,
                   key_dec, out, perturbed, adv, gad>>

\* let (hdr, key_enc) = lv_make_header(&params, &crs, &mut rng)
MakeHeader(draws) ==
    /\ pc = "params"
    /\ \E rv \in draws :
          LET res == lv_make_header(params, crs, rv)
          IN  r' = rv /\ hdr' = res.hdr /\ key_enc' = res.key
    /\ pc' = "header"
    /\ UNCHANGED <<crs, dg, wit, pi, verdict, params, nonce, pt, ct, tag, key_dec, out,
                   perturbed, adv, gad>>

\* let tag = aead_encrypt(&crs, &params.shape, &hdr, key_enc, nonce, &mut msg);
\* let mut ct = msg.clone()
Seal(msgs, nonces) ==
    /\ pc = "header"
    /\ \E m \in msgs, nn \in nonces :
          LET res == aead_encrypt(crs, params.shape, hdr, key_enc, nn, m)
          IN  pt' = m /\ nonce' = nn /\ ct' = res.buf /\ tag' = res.tag
    /\ pc' = "sealed"
    /\ UNCHANGED <<crs, dg, wit, pi, verdict, params, r, hdr, key_enc, key_dec, out,
                   perturbed, adv, gad>>

\* one header element is replaced between encryption and decryption
TamperHeader ==
    /\ pc = "sealed"
    /\ adv = {}
    /\ \E j \in Cols : \E e \in Replacements(hdr.c1[j]) :
          hdr' = [c1 |-> [hdr.c1 EXCEPT ![j] = e]]
    /\ adv' = {"header"}
    /\ UNCHANGED <<pc, crs, dg, wit, pi, verdict, params, r, key_enc, nonce, pt, ct, tag,
                   key_dec, out, perturbed, gad>>

\* the header reaches the decryptor with an element missing or added, or with
\* one element in the source group that its column does not expect
MalformHeader ==
    /\ pc = "sealed"
    /\ adv = {}
    /\ \/ hdr' = [c1 |-> SubSeq(hdr.c1, 1, Len(hdr.c1) - 1)]
       \/ \E e \in {G1(1), G2(1)} : hdr' = [c1 |-> Append(hdr.c1, e)]
       \/ \E j \in Cols :
             hdr' = [c1 |-> [hdr.c1 EXCEPT ![j] =
                                [grp |-> IF @.grp = "G1" THEN "G2" ELSE "G1", v |-> @.v]]]
    /\ adv' = {"malformed"}
    /\ UNCHANGED <<pc, crs, dg, wit, pi, verdict, params, r, key_enc, nonce, pt, ct, tag,
                   key_dec, out, perturbed, gad>>

\* the decryptor's context differs from the one the message was sealed
\* under: crs.n, crs.N, one entry of A or one b_i
AlterContext ==
    /\ pc = "sealed"
    /\ adv = {}
    /\ \/ crs' = [crs EXCEPT !.n = crs.n + 1] /\ UNCHANGED params
       \/ crs' = [crs EXCEPT !.N = crs.N + 1] /\ UNCHANGED params
       \/ /\ \E i \in Rows, j \in Cols : \E e \in {-1, 0, 1} \ {params.shape.a[i][j]} :
                params' = [params EXCEPT !.shape.a[i][j] = e]
          /\ UNCHANGED crs
       \/ /\ \E i \in Rows :
                params' = [params EXCEPT !.shape.b[i] = FAdd(params.shape.b[i], 1)]
          /\ UNCHANGED crs
    /\ adv' = {"context"}
    /\ UNCHANGED <<pc, dg, wit, pi, verdict, r, hdr, key_enc, nonce, pt, ct, tag,
                   key_dec, out, perturbed, gad>>

\* the nonce, one ciphertext byte or the tag is replaced as well
Garble ==
    /\ pc = "sealed"
    /\ adv = {"header"}
    /\ \/ /\ \E nn \in Nonces \ {nonce} : nonce' = nn
          /\ adv' = adv \cup {"nonce"}
          /\ UNCHANGED <<ct, tag>>
       \/ /\ \E i \in 1 .. Len(ct) : \E b \in Bytes \ {ct[i]} : ct' = [ct EXCEPT ![i] = b]
          /\ adv' = adv \cup {"ct"}
          /\ UNCHANGED <<nonce, tag>>
       \/ /\ \E nn \in Nonces \ {nonce} : tag' = GcmTag(key_enc, nn, tag.mac[3], ct)
          /\ adv' = adv \cup {"tag"}
          /\ UNCHANGED <<nonce, ct>>
    /\ UNCHANGED <<pc, crs, dg, wit, pi, verdict, params, r, hdr, key_enc, pt, key_dec,
                   out, perturbed, gad>>

\* the holder of the proof derives the key of the tampered header with
\* lv_key_from_header and seals a message of its own with aead_encrypt
Reseal ==
    /\ pc = "sealed"
    /\ adv = {"header"}
    /\ LET key == lv_key_from_header(crs, dg.lv, params, hdr, pi)
       IN  /\ IsSome(key)
           /\ \E m \in Msgs :
                 LET res == aead_encrypt(crs, params.shape, hdr, key.some, nonce, m)
                 IN  ct' = res.buf /\ tag' = res.tag
    /\ adv' = adv \cup {"reseal"}
    /\ UNCHANGED <<pc, crs, dg, wit, pi, verdict, params, r, hdr, key_enc, nonce, pt,
                   key_dec, out, perturbed, gad>>

\* decrypt_with_lv_header(&crs, &dg.lv, &params, &hdr, &pi.lv, nonce, &mut ct, &tag)
Decrypt ==
    /\ pc = "sealed"
    /\ LET res == decrypt_with_lv_header(crs, dg.lv, params, hdr, pi, nonce, ct, tag)
       IN  out' = res.out /\ ct' = res.ct /\ key_dec' = res.key
    /\ pc' = "done"
    /\ UNCHANGED <<crs, dg, wit, pi, verdict, params, r, hdr, key_enc, nonce, pt, tag,
                   perturbed, adv, gad>>

\* a second decrypt_with_lv_header with the same arguments and the same
\* buffer, as the first call left it
DecryptAgain ==
    /\ pc = "done"
    /\ LET res == decrypt_with_lv_header(crs, dg.lv, params, hdr, pi, nonce, ct, tag)
       IN  gad' = [out |-> res.out] /\ ct' = res.ct
    /\ pc' = "redone"
    /\ UNCHANGED <<crs, dg, wit, pi, verdict, params, r, hdr, key_enc, nonce, pt, tag,
                   key_dec, out, perturbed, adv>>

Next ==
    \/ Setup({DomainSize})
    \/ DigestSetup
    \/ Prove
    \/ Verify
    \/ PerturbCoord
    \/ PublicParams
    \/ MakeHeader(RSamples)
    \/ Seal(Msgs, Nonces)
    \/ Decrypt

Spec == Init /\ [][Next]_vars

(***************************************************************************)
(* The pipeline with the decryptor calling decrypt_with_lv_header twice.   *)
(***************************************************************************)
NextRepeat ==
    \/ Setup({DomainSize})
    \/ DigestSetup
    \/ Prove
    \/ Verify
    \/ PublicParams
    \/ MakeHeader(RNonzero)
    \/ Seal(Msgs, {0})
    \/ Decrypt
    \/ DecryptAgain

SpecRepeat == Init /\ [][NextRepeat]_vars

(***************************************************************************)
(* The verifier facing an adversarial prover.                              *)
(***************************************************************************)
NextForge ==
    \/ Setup({DomainSize})
    \/ DigestSetup
    \/ Prove
    \/ ForgeMul(F)
    \/ ForgeGadget
    \/ Verify
    \/ PublicParams
    \/ MakeHeader(RNonzero)
    \/ Seal(LongMsgs, {0})
    \/ Decrypt

SpecForge == Init /\ [][NextForge]_vars

(***************************************************************************)
(* The verifier and the decryptor facing a proof whose two commitments to  *)
(* B(tau) disagree.                                                        *)
(***************************************************************************)
NextAgree ==
    \/ Setup({DomainSize})
    \/ DigestSetup
    \/ Prove
    \/ ForgeMul({0})
    \/ ForgeCommitment
    \/ Verify
    \/ PublicParams
    \/ MakeHeader(RNonzero)
    \/ Seal(LongMsgs, {0})
    \/ Decrypt

SpecAgree == Init /\ [][NextAgree]_vars

(***************************************************************************)
(* The gadgets on their own: setup for a requested size, then NonZero,     *)
(* IIP or a commitment on drawn vectors.                                   *)
(***************************************************************************)
\* let pi = nonzero_prove(&crs, &w, idx_one): a build with debug assertions
\* panics when the remainder is not zero
NonZeroProve ==
    /\ pc = "crs"
    /\ \E w \in WVecs(crs.n), i \in 0 .. (crs.n - 1), debug \in BOOLEAN :
          IF debug /\ nonzero_division(crs, w, i).r # 0
          THEN pc' = "panic" /\ gad' = [w |-> w, idx |-> i]
          ELSE pc' = "nz_proved"
               /\ gad' = [w |-> w, idx |-> i, pi |-> nonzero_prove(crs, w, i)]
    /\ UNCHANGED <<crs, dg, wit, pi, verdict, params, r, hdr, key_enc, nonce, pt, ct, tag,
                   key_dec, out, perturbed, adv>>

\* nonzero_verify(&crs, &pi, idx_one)
NonZeroVerify ==
    /\ pc = "nz_proved"
    /\ verdict' = nonzero_verify(crs, gad.pi, gad.idx)
    /\ pc' = "nz_verified"
    /\ UNCHANGED <<crs, dg, wit, pi, params, r, hdr, key_enc, nonce, pt, ct, tag,
                   key_dec, out, perturbed, adv, gad>>

\* let d = iip_digest(&crs, &s); let pi = iip_prove(&crs, &s, &w)
IipProve ==
    /\ pc = "crs"
    /\ \E s \in SVecs(crs.n), w \in WVecs(crs.n), debug \in BOOLEAN :
          IF iip_prove_panics(debug, crs, s, w)
          THEN pc' = "panic" /\ gad' = [s |-> s, w |-> w]
          ELSE pc' = "iip_proved"
               /\ gad' = [s |-> s, w |-> w, d |-> iip_digest(crs, s),
                          pi |-> iip_prove(crs, s, w)]
    /\ UNCHANGED <<crs, dg, wit, pi, verdict, params, r, hdr, key_enc, nonce, pt, ct, tag,
                   key_dec, out, perturbed, adv>>

\* one field of the IIP proof is replaced by a different group element
IipMutate ==
    /\ pc = "iip_proved"
    /\ \E f \in IipFields, delta \in 1 .. MaxW :
          /\ gad' = [gad EXCEPT !.pi[f] = FAdd(gad.pi[f], delta)]
          /\ adv' = {f}
    /\ pc' = "iip_mutated"
    /\ UNCHANGED <<crs, dg, wit, pi, verdict, params, r, hdr, key_enc, nonce, pt, ct, tag,
                   key_dec, out, perturbed>>

\* iip_verify(&d, &pi)
IipVerify ==
    /\ pc \in {"iip_proved", "iip_mutated"}
    /\ verdict' = iip_verify(gad.d, gad.pi)
    /\ pc' = "iip_verified"
    /\ UNCHANGED <<crs, dg, wit, pi, params, r, hdr, key_enc, nonce, pt, ct, tag,
                   key_dec, out, perturbed, adv, gad>>

\* crs.commit_poly_g1 and crs.commit_poly_g2 on p, q and a*p + b*q
Commit ==
    /\ pc = "crs"
    /\ \E p \in CoeffVecs(crs, 2), q \in CoeffVecs(crs, 1), a \in Slots, b \in Slots :
          LET lin == [j \in 1 .. Max(Len(p), Len(q)) |->
                         FAdd(FMul(a, Coef(p, j)), FMul(b, Coef(q, j)))]
          IN  gad' = [ p |-> p, q |-> q, a |-> a, b |-> b, lin |-> lin,
                       p_1 |-> commit_poly_g1(crs, p), q_1 |-> commit_poly_g1(crs, q),
                       lin_1 |-> commit_poly_g1(crs, lin),
                       p_2 |-> commit_poly_g2(crs, p), q_2 |-> commit_poly_g2(crs, q),
                       lin_2 |-> commit_poly_g2(crs, lin) ]
    /\ pc' = "committed"
    /\ UNCHANGED <<crs, dg, wit, pi, verdict, params, r, hdr, key_enc, nonce, pt, ct, tag,
                   key_dec, out, perturbed, adv>>

\* iip_digest, iip_prove, nonzero_prove or interpolate called with a vector
\* whose length is not n (the other argument, if any, has length n): the
\* length assertion at the head of the call fails
ShapeCall ==
    /\ pc = "crs"
    /\ \E call \in ShapeCalls, v \in OnesUpTo(crs.n + 1) :
          LET ok == [i \in 1 .. crs.n |-> 1]
          IN  /\ Len(v) # crs.n
              /\ CASE call = "iip_digest"    -> iip_digest_panics(crs, v)
                   [] call = "iip_prove_s"   -> iip_prove_shape_panics(crs, v, ok)
                   [] call = "iip_prove_w"   -> iip_prove_shape_panics(crs, ok, v)
                   [] call = "nonzero_prove" -> interpolate_panics(crs, v)
                   [] call = "interpolate"   -> interpolate_panics(crs, v)
              /\ pc' = "panic"
              /\ gad' = [call |-> call, len |-> Len(v)]
    /\ UNCHANGED <<crs, dg, wit, pi, verdict, params, r, hdr, key_enc, nonce, pt, ct, tag,
                   key_dec, out, perturbed, adv>>

NextGadget ==
    \/ Setup(Sizes)
    \/ DigestSetup
    \/ NonZeroProve
    \/ NonZeroVerify
    \/ IipProve
    \/ IipMutate
    \/ IipVerify
    \/ Commit
    \/ ShapeCall

SpecGadget == Init /\ [][NextGadget]_vars

(***************************************************************************)
(* The decryptor facing a tampered transport: the run starts from a        *)
(* message sealed by the pipeline for an honest prover.                    *)
(***************************************************************************)
InitTamper ==
    \E tau \in TauDraws, x \in Slots, y \in {MaxW}, rv \in RUniform,
       m \in Msgs, nn \in {0} :
     \E c \in {CRS_setup(tau, DomainSize)} :
      \E d \in {MulDigest_setup(c, FMul(x, y))} :
       \E prf \in {mul_prove(c, d, [x |-> x, y |-> y, z |-> FMul(x, y)])} :
        \E prm \in {lv_public_linear_params(c, d.lv)} :
         \E hk \in {lv_make_header(prm, c, rv)} :
          \E sl \in {aead_encrypt(c, prm.shape, hk.hdr, hk.key, nn, m)} :
            /\ pc = "sealed"
            /\ crs = c /\ dg = d /\ pi = prf
            /\ wit = [x |-> x, y |-> y, z |-> FMul(x, y)]
            /\ verdict = lv_verify(FALSE, c, d.lv, prf)
            /\ params = prm /\ r = rv /\ hdr = hk.hdr /\ key_enc = hk.key
            /\ nonce = nn /\ pt = m /\ ct = sl.buf /\ tag = sl.tag
            /\ key_dec = None /\ out = None /\ perturbed = None
            /\ adv = {} /\ gad = None

NextTamper ==
    \/ TamperHeader
    \/ MalformHeader
    \/ AlterContext
    \/ Garble
    \/ Reseal
    \/ Decrypt

SpecTamper == InitTamper /\ [][NextTamper]_vars

(***************************************************************************)
(* Properties.                                                             *)
(***************************************************************************)
\* the prover's witness satisfies x*y = z and z is the digest's instance z0
HonestInstance ==
    /\ FMul(wit.x, wit.y) = wit.z
    /\ wit.z = dg.lv.instance_z

\* C1: KEM key agreement. For an honest proof of x*y = z = z0 and every
\* sampled r, lv_key_from_header returns Some(k) with k the key that
\* lv_make_header returned with the header; the hashed GT elements agree.
C1_KeyAgreement ==
    (pc = "done" /\ HonestInstance /\ adv = {}) =>
        /\ key_dec = Some(key_enc)
        /\ key_dec.some.sha256[1] =
               SumTo([i \in Rows |-> FMul(params.shape.b[i], r[i])], LV_ROWS)

C1_Witness ==
    /\ pc = "done" /\ HonestInstance /\ adv = {}
    /\ key_dec = Some(key_enc)
    /\ wit.z # 0 /\ crs.tau > 1
    /\ \E i \in Rows : r[i] # 0

\* C2: Encrypt/decrypt round trip. Sealing m (empty or not) under the header
\* and key of lv_make_header and decrypting with an honest proof for
\* x*y = z0 returns Some(m).
C2_RoundTrip ==
    (pc = "done" /\ HonestInstance /\ adv = {}) => out = Some(pt)

C2_Witness ==
    /\ pc = "done" /\ HonestInstance /\ adv = {}
    /\ out = Some(pt) /\ Len(pt) > 0 /\ tag.mac[4] # pt

\* C3: Decryption requires a witness of the instance. With the IIP, NonZero
\* and MaxDeg parts honest for [x, y, z, 1] and constant Mul commitments,
\* decrypt_with_lv_header returns Some only if x*y = z0.
C3_DecryptNeedsWitness ==
    (pc = "done" /\ IsSome(out)) => FMul(wit.x, wit.y) = dg.lv.instance_z

\* C4: A wrong-instance proof is refused. For an honest proof of
\* x'*y' = z' with z' # z0 and every r, decrypt_with_lv_header returns None
\* and lv_verify returns false.
C4_WrongInstanceRefused ==
    (pc = "done" /\ FMul(wit.x, wit.y) = wit.z /\ wit.z # dg.lv.instance_z) =>
        /\ out = None
        /\ verdict = FALSE

\* C5: The decryptor verifies the LV proof before it derives a key: when
\* lv_verify returns false, decrypt_with_lv_header and lv_key_from_header
\* return None.
C5_VerifyBeforeKey ==
    (pc = "done" /\ ~lv_verify(FALSE, crs, dg.lv, pi)) =>
        /\ out = None
        /\ key_dec = None

\* C6: LV completeness. For every drawn trapdoor and every x, y, z = x*y
\* with the digest of z, lv_verify accepts mul_prove's proof (in either
\* build) and the coordinates satisfy every row equation at once.
C6_Completeness ==
    (pc = "verified" /\ HonestInstance /\ adv = {}) =>
        /\ verdict = TRUE
        /\ lv_verify(TRUE, crs, dg.lv, pi)
        /\ lv_verify(FALSE, crs, dg.lv, pi)
        /\ LET coords == build_lv_coords(crs, dg.lv, pi)
           IN  /\ IsSome(coords)
               /\ \A i \in Rows :
                     RowLhs(linear_shape(dg.lv, crs), coords.some, i)
                         = linear_shape(dg.lv, crs).b[i]

C6_Witness ==
    /\ pc = "verified" /\ HonestInstance /\ adv = {}
    /\ verdict = TRUE
    /\ wit.z # 0 /\ crs.tau > 1

\* C7: The Mul gadget binds the product relation. For every proof accepted
\* by lv_verify whose IIP, NonZero and MaxDeg parts are honest for
\* [x, y, z, 1] and whose Mul commitments are constants: a_tau_1 commits to
\* x, b_tau_1 and b_tau_2 to y, c_tau_1 to z, and x*y = z = z0.
C7_MulBinding ==
    (pc = "verified" /\ verdict = TRUE) =>
        /\ pi.a_tau_1 = wit.x
        /\ pi.b_tau_1 = wit.y
        /\ pi.b_tau_2 = wit.y
        /\ pi.c_tau_1 = wit.z
        /\ FMul(wit.x, wit.y) = wit.z
        /\ wit.z = dg.lv.instance_z

\* C8: Every coordinate is constrained. Replacing any single coordinate of
\* a valid proof's vector by a different GT element makes
\* recover_sb_via_linear_check return false.
C8_EveryCoordConstrained ==
    pc = "perturbed" => perturbed.ok = FALSE

\* C9: The linear shape has exactly 10 rows and 20 columns with entries in
\* {-1, 0, 1}, and the header built from it has exactly 20 elements.
C9_ShapeDims ==
    /\ params # None =>
          /\ params.shape.rows = 10
          /\ Len(params.shape.a) = 10
          /\ Len(params.shape.b) = 10
          /\ \A i \in 1 .. Len(params.shape.a) :
                /\ Len(params.shape.a[i]) = 20
                /\ \A j \in 1 .. Len(params.shape.a[i]) :
                      params.shape.a[i][j] \in {-1, 0, 1}
    /\ hdr # None => Len(hdr.c1) = 20

C11_ContextBinding ==
    (pc = "done" /\ "context" \in adv) =>
        /\ out = None
        /\ key_dec # Some(key_enc)
        /\ compute_aad(crs, params.shape, hdr) # tag.mac[3]

C11_Witness ==
    /\ pc = "done" /\ adv = {"context"}
    /\ IsSome(key_dec)
    /\ out = None
    /\ r # [i \in Rows |-> 0]
    /\ \E i \in Rows, j \in Cols : params.shape.a[i][j] # linear_shape(dg.lv, crs).a[i][j]

C13_NonZeroLaw ==
    /\ pc = "nz_verified" => (verdict = TRUE <=> gad.w[gad.idx + 1] = 1)
    /\ (pc = "panic" /\ gad # None /\ "idx" \in DOMAIN gad) => gad.w[gad.idx + 1] # 1

C13_Witness ==
    /\ pc = "nz_verified"
    /\ verdict = TRUE
    /\ gad.w[gad.idx + 1] = 1
    /\ crs.n = DomainSize /\ crs.tau > 1
    /\ \E k \in 1 .. crs.n : gad.w[k] > 1

\* C14: IIP completeness. For every CRS, every selector s and every witness
\* w, both of length n, iip_verify(iip_digest(crs, s), iip_prove(crs, s, w))
\* returns true: the prover does not panic and all three pairing equations
\* hold.
C14_IipCompleteness ==
    /\ (pc = "iip_verified" /\ adv = {}) => verdict = TRUE
    /\ ~(pc = "panic" /\ gad # None /\ "s" \in DOMAIN gad)

\* C15 as stated: for every CRS that CRS::setup can return, every s and w of
\* length n and every one of the six fields of the honest IIPProof, replacing
\* that field by a different group element makes iip_verify return false.
C15_EveryMutationDetected ==
    (pc = "iip_verified" /\ adv # {}) => verdict = FALSE

\* C15 as amended: replacing v_g1, QX_hat_tau_1 or v_hat_tau_1 always makes
\* iip_verify return false; replacing w_tau_2 does unless the digest's C is
\* the identity, replacing QZ_tau_1 does unless Z_tau_2 is the identity
\* (tau in D), and replacing QX_tau_1 does unless tau = 0.
C15_MutationDetected ==
    (pc = "iip_verified" /\ adv # {} /\ verdict = TRUE) =>
        \/ adv = {"w_tau_2"} /\ gad.d.C = 0
        \/ adv = {"QZ_tau_1"} /\ gad.d.Z_tau_2 = 0
        \/ adv = {"QX_tau_1"} /\ crs.tau = 0

C15_Witness ==
    /\ pc = "iip_verified"
    /\ adv = {"QZ_tau_1"}
    /\ verdict = FALSE
    /\ crs.n = DomainSize /\ crs.tau > 1
    /\ gad.pi.v_g1 # 0

\* C16: the CRS value returned by CRS::setup contains no copy of the scalar
\* tau; only the group elements [tau^i]_1 and [tau^i]_2 remain.
C16_TrapdoorErased ==
    crs # None => "tau" \notin DOMAIN crs

\* C17: for every outcome of the random source the tau used by CRS::setup is
\* non-zero, so [tau]_1 and [tau]_2 are never the identity.
C17_TauNonzero ==
    crs # None =>
        /\ crs.tau # 0
        /\ g1_tau_pow(crs, 1) # 0
        /\ g2_tau_pow(crs, 1) # 0

\* C18: for every n accepted by CRS::setup the returned CRS has N = 2n+4,
\* N+1 powers in each group with element i equal to tau^i times the generator,
\* n_inv * n = 1, a domain of exactly n elements and vanishing_coeffs equal to
\* the coefficients of X^n - 1.
C18_WellFormed ==
    crs # None =>
        /\ crs.N = 2 * crs.n + 4
        /\ Len(crs.g1_pows) = crs.N + 1 /\ Len(crs.g2_pows) = crs.N + 1
        /\ \A i \in 0 .. crs.N :
              /\ g1_tau_pow(crs, i) = FPow(crs.tau, i)
              /\ g2_tau_pow(crs, i) = FPow(crs.tau, i)
        /\ FMul(crs.n_inv, crs.n % P) = 1
        /\ Cardinality({domain_element(crs, i) : i \in 0 .. crs.domain.size - 1}) = crs.n
        /\ crs.vanishing_coeffs =
              [j \in 1 .. crs.n + 1 |->
                  IF j = 1 THEN FNeg(1) ELSE IF j = crs.n + 1 THEN 1 ELSE 0]

\* C19: CRS::setup returns no CRS when n is not a power of two or F has no
\* multiplicative subgroup of order n.
C19_SetupRejects ==
    crs # None => (is_power_of_two(crs.n) /\ (P - 1) % crs.n = 0)

\* C20: commit_poly_g1 and commit_poly_g2 are linear,
\* commit(a*p + b*q) = a*commit(p) + b*commit(q), and each commitment equals
\* the sum over all j of c_j [tau^j], the skipped zero coefficients included.
C20_CommitLinear ==
    pc = "committed" =>
        LET full(pows, c) == SumTo([j \in 1 .. Len(c) |-> FMul(pows[j], c[j])], Len(c))
        IN  /\ gad.lin_1 = FAdd(FMul(gad.a, gad.p_1), FMul(gad.b, gad.q_1))
            /\ gad.lin_2 = FAdd(FMul(gad.a, gad.p_2), FMul(gad.b, gad.q_2))
            /\ gad.p_1 = full(crs.g1_pows, gad.p) /\ gad.p_2 = full(crs.g2_pows, gad.p)
            /\ gad.q_1 = full(crs.g1_pows, gad.q) /\ gad.q_2 = full(crs.g2_pows, gad.q)
            /\ gad.lin_1 = full(crs.g1_pows, gad.lin)
            /\ gad.lin_2 = full(crs.g2_pows, gad.lin)

C20_Witness ==
    /\ pc = "committed"
    /\ crs.n = DomainSize /\ crs.tau > 1
    /\ gad.a > 1 /\ gad.b > 0
    /\ Len(gad.p) = 2 /\ gad.p[1] = 0 /\ gad.p[2] = 1
    /\ Len(gad.q) = 1 /\ gad.q[1] # 0
    /\ gad.lin_1 # 0 /\ gad.lin_1 # gad.p_1

\* C21: for every witness with x*y # z, mul_prove returns no proof and
\* reports the failure to its caller instead of aborting.
C21_BadWitnessReported ==
    (wit # None /\ FMul(wit.x, wit.y) # wit.z) =>
        /\ pi = None
        /\ pc # "panic"

\* the header does not have LV_NUM_COORDS elements, or one of them lies in the
\* source group that its column's metadata does not name
MalformedHeader(h, cols) ==
    \/ Len(h.c1) # LV_NUM_COORDS
    \/ \E j \in Cols :
          h.c1[j].grp # (IF cols[j].side = ProofG1PublicG2 THEN "G2" ELSE "G1")

\* C22: on a malformed header lv_key_from_header and decrypt_with_lv_header
\* return None and the ciphertext buffer is left as it was.
C22_MalformedRefused ==
    [][ (pc = "sealed" /\ pc' = "done" /\ MalformedHeader(hdr, params.cols)) =>
            /\ lv_key_from_header(crs, dg.lv, params, hdr, pi) = None
            /\ key_dec' = None
            /\ out' = None
            /\ ct' = ct ]_vars

C22_Witness ==
    /\ pc = "done"
    /\ adv = {"malformed"}
    /\ Len(hdr.c1) = LV_NUM_COORDS - 1
    /\ out = None /\ key_dec = None
    /\ Len(ct) > 0
    /\ verdict = TRUE

\* C23: a call of iip_digest, iip_prove, nonzero_prove or interpolate with a
\* selector or witness whose length is not n never aborts (it yields an
\* outcome the caller can handle).
C23_ShapeMismatchRecoverable ==
    ~(pc = "panic" /\ gad # None /\ "call" \in DOMAIN gad /\ gad.len # crs.n)

\* C24: whenever iip_z.w_tau_2 differs from nz.w_tau_2, build_lv_coords and
\* build_proof_side_elems return None, lv_verify returns false and
\* lv_key_from_header and decrypt_with_lv_header return None, whatever the
\* other proof fields are.
C24_CommitmentAgreement ==
    (pi # None /\ pi.iip_z.w_tau_2 # pi.nz.w_tau_2) =>
        /\ build_lv_coords(crs, dg.lv, pi) = None
        /\ build_proof_side_elems(crs, dg.lv, pi) = None
        /\ \A debug \in BOOLEAN : ~lv_verify(debug, crs, dg.lv, pi)
        /\ pc \notin {"proved", "forged"} => verdict = FALSE
        /\ hdr # None => lv_key_from_header(crs, dg.lv, params, hdr, pi) = None
        /\ pc = "done" => (out = None /\ key_dec = None)

C24_Witness ==
    /\ pc = "done"
    /\ HonestInstance
    /\ adv = {"proof", "commitment"}
    /\ pi.iip_z.w_tau_2 # pi.nz.w_tau_2
    /\ verdict = FALSE /\ out = None /\ key_dec = None
    /\ crs.tau > 1 /\ wit.z # 0

\* C25: recover_sb_via_linear_check(shape, coords) returns true if and only
\* if for every row i < shape.rows the product over j of coords[j]^{A[i][j]}
\* equals b[i], with b[3] = e(g1, g2), b[7] = e(z0*g1, g2) and the identity
\* of GT on every other row (rows and columns counted from 0).
C25_LinearCheckSemantics ==
    LET shape == linear_shape(dg.lv, crs)
        \* c^e in GT for an exponent e in {-1, 0, 1}
        GtPow(c, e) == FMul(c, (e + P) % P)
        Product(coords, i) ==
            SumTo([j \in Cols |-> GtPow(coords[j], shape.a[i][j])], LV_NUM_COORDS)
        Rhs(i) == IF i = 3 THEN 1 ELSE IF i = 7 THEN dg.lv.instance_z ELSE 0
        Holds(coords) ==
            \A i \in 0 .. (shape.rows - 1) : Product(coords, i + 1) = Rhs(i)
        honest == build_lv_coords(crs, dg.lv, pi)
    IN  /\ (pc = "verified" /\ IsSome(honest)) =>
              (recover_sb_via_linear_check(shape, honest.some) <=> Holds(honest.some))
        /\ pc = "perturbed" =>
              /\ perturbed.ok = recover_sb_via_linear_check(shape, perturbed.coords)
              /\ perturbed.ok <=> Holds(perturbed.coords)

C25_Witness ==
    /\ pc = "perturbed"
    /\ perturbed.col = 9
    /\ perturbed.ok = FALSE
    /\ verdict = TRUE
    /\ dg.lv.instance_z # 0 /\ crs.tau > 1

\* C26: for every selector s and witness w of length n, with v = <s, w> and
\* P(X) = A(X)*B(X) - v*n, the Q_Z and Q_X of iip_prove satisfy
\* P(X) = Q_Z(X)*Z_D(X) + X*Q_X(X) exactly, and the remainder of R divided by
\* X is zero, so the divisibility assertion never fires.
C26_IipDecomposition ==
    (pc \in {"iip_proved", "panic"} /\ gad # None /\ "s" \in DOMAIN gad) =>
        LET q  == iip_polys(crs, gad.s, gad.w)
            Z  == from_coefficients_vec(crs.vanishing_coeffs)
            v  == SumTo([i \in 1 .. crs.n |-> FMul(gad.s[i], gad.w[i])], crs.n)
            AB == mul_poly(interpolate(crs, gad.s), interpolate(crs, gad.w))
        IN  /\ q.rem = <<>>
            /\ q.v = v
            /\ q.P = sub_constant(AB, FMul(v, crs.n % P))
            /\ sub_poly(sub_poly(q.P, mul_poly(q.QZ, Z)), mul_by_xk(q.QX, 1)) = <<>>
            /\ evaluate(q.R, 0) = 0
            /\ q.R = mul_by_xk(q.QX, 1)

C26_Witness ==
    /\ pc = "iip_proved"
    /\ crs.n = DomainSize /\ crs.tau > 1
    /\ LET q == iip_polys(crs, gad.s, gad.w)
           Z == from_coefficients_vec(crs.vanishing_coeffs)
       IN  /\ evaluate(div_rem(q.P, Z).r, 0) # 0
           /\ q.QX # <<>> /\ q.QZ # <<>>
           /\ Len(q.P) > Len(Z)

\* C27: for every column j and every proof whose two commitments to B(tau)
\* agree, element j of build_proof_side_elems lies in the group named by
\* column_metadata()[j].side, the public base of the column is present in
\* the opposite group, and pairing the two yields coordinate c_j of
\* build_lv_coords.
C27_ColumnConsistency ==
    (pi # None /\ pi.iip_z.w_tau_2 = pi.nz.w_tau_2) =>
        LET elems  == build_proof_side_elems(crs, dg.lv, pi)
            coords == build_lv_coords(crs, dg.lv, pi)
            cols   == column_metadata(dg.lv, crs)
        IN  /\ IsSome(elems) /\ IsSome(coords)
            /\ Len(elems.some) = LV_NUM_COORDS
            /\ Len(coords.some) = LV_NUM_COORDS
            /\ Len(cols) = LV_NUM_COORDS
            /\ \A j \in Cols :
                  \/ /\ cols[j].side = ProofG1PublicG2
                     /\ elems.some[j].grp = "G1"
                     /\ IsSome(cols[j].g2_pub) /\ ~IsSome(cols[j].g1_pub)
                     /\ pairing(elems.some[j].v, cols[j].g2_pub.some) = coords.some[j]
                  \/ /\ cols[j].side = ProofG2PublicG1
                     /\ elems.some[j].grp = "G2"
                     /\ IsSome(cols[j].g1_pub) /\ ~IsSome(cols[j].g2_pub)
                     /\ pairing(cols[j].g1_pub.some, elems.some[j].v) = coords.some[j]

C27_Witness ==
    /\ pc = "verified"
    /\ adv = {"proof"}
    /\ pi.iip_z.w_tau_2 = pi.nz.w_tau_2
    /\ crs.tau > 1 /\ wit.x > 1 /\ wit.y > 0
    /\ LET coords == build_lv_coords(crs, dg.lv, pi).some
       IN  coords[1] # 0 /\ coords[10] # 0 /\ coords[17] # 0 /\ coords[18] # 0

\* C28: decrypt_with_lv_header leaves the caller's ciphertext buffer as it
\* was, and after a call that returned Some(m) a second call with the same
\* arguments, buffer and tag returns Some(m) again.
C28_DecryptRepeatable ==
    /\ (pc \in {"done", "redone"} /\ IsSome(out)) => ct = tag.mac[4]
    /\ (pc = "redone" /\ IsSome(out)) => gad.out = out

\* C29: lv_verify returns the same verdict with and without the iip_verify
\* and nonzero_verify checks of a build with debug assertions: every proof
\* accepted by the direct pairing checks and the linear system also passes
\* the four gadget verifiers.
C29_DebugChecksRedundant ==
    pc = "forged" =>
        /\ lv_verify(TRUE, crs, dg.lv, pi) = lv_verify(FALSE, crs, dg.lv, pi)
        /\ lv_verify(FALSE, crs, dg.lv, pi) =>
              /\ iip_verify(dg.lv.iip_x, pi.iip_x)
              /\ iip_verify(dg.lv.iip_y, pi.iip_y)
              /\ iip_verify(dg.lv.iip_z, pi.iip_z)
              /\ nonzero_verify(crs, pi.nz, dg.lv.one_idx)

\* C30: every polynomial that iip_prove, nonzero_prove and mul_prove pass to
\* commit_poly_g1 / commit_poly_g2 (X^{N-n+1}*Q_X, X^N*v and X^{N-d}*B
\* included) has degree at most N, so no commit indexes past the N+1 powers.
C30_CommitsInRange ==
    /\ (gad # None /\ "s" \in DOMAIN gad) =>
          LET q == iip_polys(crs, gad.s, gad.w)
          IN  /\ commit_in_range(crs, q.A) /\ commit_in_range(crs, q.B)
              /\ commit_in_range(crs, q.QZ) /\ commit_in_range(crs, q.QX)
              /\ commit_in_range(crs, q.QX_hat) /\ commit_in_range(crs, q.vhat)
    /\ (gad # None /\ "idx" \in DOMAIN gad) =>
          /\ commit_in_range(crs, interpolate(crs, gad.w))
          /\ commit_in_range(crs, nonzero_division(crs, gad.w, gad.idx).q)
    /\ dg # None =>
          \A x \in Slots, y \in Slots, z \in Slots :
              LET w     == [x |-> x, y |-> y, z |-> z]
                  polys == build_mul_qap_polys(w)
              IN  /\ commit_in_range(crs, mul_by_xk(interpolate(crs, to_vec(w)),
                                                     crs.N - dg.lv.d_bound))
                  /\ commit_in_range(crs, polys.p)
                  /\ commit_in_range(crs, compute_h_poly(polys).q)
                  /\ \A s \in {dg.s_x, dg.s_y, dg.s_z} :
                        commit_in_range(crs, iip_polys(crs, s, to_vec(w)).QX_hat)

====
